---- MODULE Spec2Model ----
(***************************************************************************)
(* Model of create_timelapse_video.py: one run of create_timelapse selects *)
(* the images of a date, writes the concat manifest ffmpeg_images.txt,     *)
(* launches the external encoder, follows its progress stream, and reports *)
(* and records the result.  Runs are separate processes that share the     *)
(* working directory (the manifest) and the output folder.                 *)
(***************************************************************************)
EXTENDS Integers, Sequences, FiniteSets, TLC

\* ------------------------------------------------------------------ bounds
MaxFiles == 2           \* image files that may exist, named 1..MaxFiles
MaxLines == 2           \* lines the encoder prints before its stream ends
MaxFrame == 2           \* largest frame number the encoder reports

\* ------------------------------------------------------- program constants
DayLen == 24            \* timedelta(days=1), in hours

RunIds == {1, 2}        \* process ids of the runs that may be in flight
Dates == {0}            \* the selected date, as a day number
MorningTimes == {6}     \* config['image_input']['morning_time'], as an hour
Names == 1..MaxFiles
ExcKinds == {"OSError", "ValueError"}

Max(a, b) == IF a >= b THEN a ELSE b
Min(a, b) == IF a <= b THEN a ELSE b

\* ------------------------------------------------------------ pure helpers

\* args.test_amount is None (<<>>) or an int (<<k>>); type=int accepts any sign
None == <<>>
TestAmounts == {None} \cup {<<k>> : k \in (0 - MaxFiles)..MaxFiles}

\* Python truth value of args.test_amount: None and 0 are false
Truthy(t) == t # None /\ t[1] # 0

\* Python images[:k]
PySliceTo(s, k) ==
    LET stop == IF k < 0 THEN Max(Len(s) + k, 0) ELSE Min(k, Len(s))
    IN  SubSeq(s, 1, stop)

\* order of two paths of the image tree (folder first, then file name)
PathLeq(p, q) ==
    \/ p.folder < q.folder
    \/ p.folder = q.folder /\ p.name <= q.name

\* sorted(...) of a set of paths
RECURSIVE SortedPaths(_)
SortedPaths(S) ==
    IF S = {} THEN <<>>
    ELSE LET m == CHOOSE x \in S : \A y \in S : PathLeq(x, y)
         IN  <<m>> \o SortedPaths(S \ {m})

PathOf(f) == [folder |-> f.folder, name |-> f.name]

\* sorted(glob.glob(folder/*ext)) for the folder of date d
get_image_files(fs, d) == SortedPaths({PathOf(f) : f \in {g \in fs : g.folder = d}})

\* os.path.getmtime(img)
getmtime(fs, p) == (CHOOSE f \in fs : PathOf(f) = p).mtime

\* datetime.combine(date, morning_time) and + timedelta(days=1), in hours
start_time_morning(d, cfg) == d * DayLen + cfg.morning_time
end_time_morning(d, cfg) == start_time_morning(d, cfg) + DayLen

TodayKeepsStrict(m, start) == m > start
\* the filter of today's images: mtime >= start_time_morning
TodayKeeps(m, start) == m >= start

\* the filter of tomorrow's images: mtime <= end_time_morning
TomorrowKeeps(m, end) == m <= end

\* images as selected for date d, before the test limit
SelectImages(fs, d, cfg) ==
    IF cfg.morning_to_morning
    THEN LET today_images == get_image_files(fs, d)
             today_filtered_images ==
                 SelectSeq(today_images,
                     LAMBDA img : TodayKeeps(getmtime(fs, img), start_time_morning(d, cfg)))
             tomorrow_images == get_image_files(fs, d + 1)
             tomorrow_filtered_images ==
                 SelectSeq(tomorrow_images,
                     LAMBDA img : TomorrowKeeps(getmtime(fs, img), end_time_morning(d, cfg)))
         IN  today_filtered_images \o tomorrow_filtered_images
    ELSE get_image_files(fs, d)

NeverEmpty(imgs) == FALSE
\* `if not images`
NoImages(imgs) == Len(imgs) = 0

LimitOffByOne(imgs, t) == IF Truthy(t) THEN PySliceTo(imgs, t[1] + 1) ELSE imgs
\* `if args.test_amount: images = images[:args.test_amount]`
ApplyTestAmount(imgs, t) == IF Truthy(t) THEN PySliceTo(imgs, t[1]) ELSE imgs

\* one line of the manifest: file '<image>'
ManifestLine(image) == [kw |-> "file", path |-> image]
ManifestOf(imgs) == [i \in 1..Len(imgs) |-> ManifestLine(imgs[i])]

\* a line left behind the end of a file by a write past it
Hole == [kw |-> "hole", path |-> [folder |-> 0, name |-> 0]]
\* a manifest left by an earlier run
StaleManifest == <<ManifestLine([folder |-> 0, name |-> 0])>>

OverwriteFirst(lines, pos, line) == <<line>>
\* f.write(line) at the handle's own offset
WriteAt(lines, pos, line) ==
    [i \in 1..Max(Len(lines), pos) |->
        IF i = pos THEN line
        ELSE IF i <= Len(lines) THEN lines[i]
        ELSE Hole]

\* open(temp_list_file, 'w'): create or truncate
OpenForWrite(m) == [exists |-> TRUE, lines |-> <<>>]

\* what the encoder's stdout can deliver to one readline()
FrameLines == {[kind |-> "frame", val |-> k] : k \in 0..MaxFrame}
EofLine == [kind |-> "eof", val |-> 0]
RawLines ==
    FrameLines \cup {[kind |-> k, val |-> 0] : k \in {"newline", "spaces", "other", "frame_bad"}}
NoLine == [kind |-> "none", val |-> 0]

\* line.decode("utf-8").strip(): nothing is left of b"", b"\n" and blanks
Strip(line) ==
    IF line.kind \in {"eof", "newline", "spaces"} THEN [kind |-> "empty", val |-> 0] ELSE line

StartsWithFrame(text) == text.kind \in {"frame", "frame_bad"}

CatchesOnlyOSError(e) == e = "OSError"
\* `except Exception as e`
Catches(e) == e \in ExcKinds

AlwaysSave(cfg) == TRUE
\* `if config['metadata']['save_to_file']`
SaveEnabled(cfg) == cfg.save_to_file

Has(tr, ev) == \E i \in 1..Len(tr) : tr[i] = ev

\* ------------------------------------------------------------------- state
VARIABLES
    files,              \* the image tree: records [folder, name, mtime]
    manifest,           \* ffmpeg_images.txt in the working directory
    outputFolderExists, \* the dated output folder
    outputExists,       \* the video file at output_path
    config,             \* config.yaml as loaded
    runs,               \* the runs (processes) of this execution
    args,               \* per run: the parsed command line
    pc,                 \* per run: where create_timelapse stands
    selected,           \* per run: images as selected, before the test limit
    images,             \* per run: the local variable images
    fpos,               \* per run: offset (in lines) of the manifest handle
    clobbered,          \* per run: another run touched the manifest since this run opened it
    launchManifest,     \* per run: the manifest as it was when the encoder was launched
    n,                  \* per run: progress_bar.n
    lastLine,           \* per run: the raw line the last readline() returned
    linesRead,          \* per run: lines delivered by the encoder so far
    proc,               \* per run: the child process
    returncode,         \* per run: its exit status
    trace,              \* per run: what the run did and logged, in order
    propagated          \* per run: an exception left create_timelapse

vars == <<files, manifest, outputFolderExists, outputExists, config, runs, args, pc,
          selected, images, fpos, clobbered, launchManifest, n, lastLine, linesRead,
          proc, returncode, trace, propagated>>

fsVars == <<files, outputFolderExists, outputExists>>
inputVars == <<config, runs, args>>
progressVars == <<n, lastLine, linesRead>>
procVars == <<proc, returncode>>

Absent == [folder |-> 0 - 1, mtime |-> 0]

\* the image tree a choice of (folder, mtime) per file name stands for
FilesOf(a) ==
    {[folder |-> a[i].folder, name |-> i, mtime |-> a[i].mtime] :
        i \in {j \in Names : a[j].folder >= 0}}

\* every placement of a file around the two ends of the morning window
WindowPlacements(d, cfg) ==
    {Absent} \cup
    {[folder |-> f, mtime |-> t] :
        f \in {d, d + 1},
        t \in {start_time_morning(d, cfg) - 1, start_time_morning(d, cfg),
               start_time_morning(d, cfg) + 1, end_time_morning(d, cfg) - 1,
               end_time_morning(d, cfg), end_time_morning(d, cfg) + 1}}

\* a file is missing, too early for the window, or on one of its two ends
EdgePlacements(d, cfg) ==
    {Absent,
     [folder |-> d, mtime |-> start_time_morning(d, cfg) - 1],
     [folder |-> d, mtime |-> start_time_morning(d, cfg)],
     [folder |-> d + 1, mtime |-> end_time_morning(d, cfg)]}

Configs ==
    [morning_to_morning : BOOLEAN, morning_time : MorningTimes, save_to_file : BOOLEAN]

ArgsSet == [date : Dates, test_amount : TestAmounts]
IdleArgs == [date |-> 0, test_amount |-> None]

NoFile == [exists |-> FALSE, lines |-> <<>>]

\* the per-run state of a process that has just entered create_timelapse
InitRuns(active) ==
    /\ runs = active
    /\ args \in [RunIds -> ArgsSet]
    /\ \A r \in RunIds \ active : args[r] = IdleArgs
    /\ \A r \in active : args[r].date = args[CHOOSE q \in active : TRUE].date
    /\ pc = [r \in RunIds |-> IF r \in active THEN "start" ELSE "idle"]
    /\ selected = [r \in RunIds |-> <<>>]
    /\ images = [r \in RunIds |-> <<>>]
    /\ fpos = [r \in RunIds |-> 0]
    /\ clobbered = [r \in RunIds |-> FALSE]
    /\ launchManifest = [r \in RunIds |-> <<>>]
    /\ n = [r \in RunIds |-> 0]
    /\ lastLine = [r \in RunIds |-> NoLine]
    /\ linesRead = [r \in RunIds |-> 0]
    /\ proc = [r \in RunIds |-> "none"]
    /\ returncode = [r \in RunIds |-> 0]
    /\ trace = [r \in RunIds |-> <<>>]
    /\ propagated = [r \in RunIds |-> FALSE]

\* one run; files on the edges of the window; any earlier manifest and video
Init ==
    /\ config \in Configs
    /\ InitRuns({1})
    /\ \E a \in [Names -> EdgePlacements(args[1].date, config)] : files = FilesOf(a)
    /\ manifest \in {NoFile, [exists |-> TRUE, lines |-> StaleManifest]}
    /\ outputFolderExists \in BOOLEAN
    /\ outputExists \in BOOLEAN
    /\ outputExists => outputFolderExists

\* ------------------------------------------------------------------ actions

Log(r, ev) == [trace EXCEPT ![r] = Append(@, ev)]

\* the `except Exception as e` clause of create_timelapse, for exception e
ExceptClause(r, e) ==
    IF Catches(e)
    THEN /\ pc' = [pc EXCEPT ![r] = "failed"]
         /\ trace' = Log(r, "error")
         /\ UNCHANGED propagated
    ELSE /\ pc' = [pc EXCEPT ![r] = "crashed"]
         /\ propagated' = [propagated EXCEPT ![r] = TRUE]
         /\ UNCHANGED trace

\* lines 142-176: select the images of the date, stop if there are none,
\* apply the test limit
Select(r) ==
    /\ pc[r] = "start"
    /\ LET imgs == SelectImages(files, args[r].date, config)
       IN  /\ selected' = [selected EXCEPT ![r] = imgs]
           /\ IF NoImages(imgs)
              THEN /\ trace' = Log(r, "no_images")
                   /\ pc' = [pc EXCEPT ![r] = "aborted"]
                   /\ images' = [images EXCEPT ![r] = imgs]
              ELSE /\ trace' = trace
                   /\ pc' = [pc EXCEPT ![r] = "open_manifest"]
                   /\ images' = [images EXCEPT ![r] = ApplyTestAmount(imgs, args[r].test_amount)]
    /\ UNCHANGED <<fsVars, inputVars, progressVars, procVars, manifest, fpos, clobbered,
                   launchManifest, propagated>>

\* the manifest changed under every other run that has written its own
Clobber(r, mine) ==
    [q \in RunIds |->
        IF q = r THEN mine
        ELSE IF pc[q] \in {"write_manifest", "mkdir", "launch"} THEN TRUE
        ELSE clobbered[q]]

\* create_ffmpeg_file_list: open(temp_list_file, 'w')
OpenManifest(r) ==
    /\ pc[r] = "open_manifest"
    /\ manifest' = OpenForWrite(manifest)
    /\ fpos' = [fpos EXCEPT ![r] = 1]
    /\ clobbered' = Clobber(r, FALSE)
    /\ pc' = [pc EXCEPT ![r] = "write_manifest"]
    /\ trace' = Log(r, "manifest_open")
    /\ UNCHANGED <<fsVars, inputVars, progressVars, procVars, selected, images,
                   launchManifest, propagated>>

\* create_ffmpeg_file_list: one f.write per image
WriteLine(r) ==
    /\ pc[r] = "write_manifest"
    /\ fpos[r] <= Len(images[r])
    /\ manifest' = [exists |-> TRUE,
                    lines |-> WriteAt(manifest.lines, fpos[r], ManifestLine(images[r][fpos[r]]))]
    /\ fpos' = [fpos EXCEPT ![r] = @ + 1]
    /\ clobbered' = Clobber(r, clobbered[r])
    /\ UNCHANGED <<fsVars, inputVars, progressVars, procVars, selected, images, pc, trace,
                   launchManifest, propagated>>

\* create_ffmpeg_file_list: the with block ends, the handle is closed
CloseManifest(r) ==
    /\ pc[r] = "write_manifest"
    /\ fpos[r] > Len(images[r])
    /\ fpos' = [fpos EXCEPT ![r] = 0]
    /\ pc' = [pc EXCEPT ![r] = "mkdir"]
    /\ trace' = Log(r, "manifest_closed")
    /\ UNCHANGED <<fsVars, inputVars, progressVars, procVars, selected, images, manifest,
                   clobbered, launchManifest, propagated>>

\* lines 182-199: os.makedirs(output_folder, exist_ok=True), build the command
MakeOutputFolder(r) ==
    /\ pc[r] = "mkdir"
    /\ outputFolderExists' = TRUE
    /\ pc' = [pc EXCEPT ![r] = "launch"]
    /\ UNCHANGED <<files, outputExists, inputVars, progressVars, procVars, selected, images,
                   manifest, fpos, clobbered, launchManifest, trace, propagated>>

\* subprocess.Popen(ffmpeg_command, ...), then tqdm(total=len(images))
Launch(r) ==
    /\ pc[r] = "launch"
    /\ proc' = [proc EXCEPT ![r] = "running"]
    /\ launchManifest' = [launchManifest EXCEPT ![r] = manifest.lines]
    /\ n' = [n EXCEPT ![r] = 0]
    /\ pc' = [pc EXCEPT ![r] = "parse"]
    /\ trace' = Log(r, "launch")
    /\ UNCHANGED <<fsVars, inputVars, selected, images, manifest, fpos, clobbered, lastLine,
                   linesRead, returncode, propagated>>

\* Popen.__exit__: close stdout and wait; the encoder ends with status rc and
\* has or has not left a file at output_path
EncoderEnds(r, rc, wrote) ==
    /\ rc = 0 => wrote
    /\ proc' = [proc EXCEPT ![r] = "exited"]
    /\ returncode' = [returncode EXCEPT ![r] = rc]
    /\ outputExists' = (outputExists \/ wrote)

\* tqdm.update(delta): the counter moves by delta, whatever its sign
TqdmUpdate(cur, delta) == cur + delta

\* parse_ffmpeg_progress: one turn of the while loop
ReadLine(r) ==
    /\ pc[r] = "parse"
    /\ \E line \in RawLines \cup {EofLine} :
        /\ linesRead[r] < MaxLines \/ line = EofLine
        /\ lastLine' = [lastLine EXCEPT ![r] = line]
        /\ linesRead' = [linesRead EXCEPT ![r] = IF line = EofLine THEN @ ELSE @ + 1]
        /\ LET text == Strip(line)
           IN  IF text.kind = "empty"
               THEN \* `if not line: break`
                    /\ pc' = [pc EXCEPT ![r] = "popen_exit"]
                    /\ proc' = [proc EXCEPT ![r] = IF line = EofLine THEN "eof" ELSE @]
                    /\ UNCHANGED <<n, returncode, outputExists, trace, propagated>>
               ELSE IF StartsWithFrame(text) /\ text.kind = "frame_bad"
               THEN \* int(...) raises ValueError, which leaves the with block
                    /\ \E rc \in {0, 1}, wrote \in BOOLEAN : EncoderEnds(r, rc, wrote)
                    /\ ExceptClause(r, "ValueError")
                    /\ UNCHANGED n
               ELSE IF StartsWithFrame(text)
               THEN /\ n' = [n EXCEPT ![r] = TqdmUpdate(@, text.val - @)]
                    /\ UNCHANGED <<pc, procVars, outputExists, trace, propagated>>
               ELSE UNCHANGED <<n, pc, procVars, outputExists, trace, propagated>>
    /\ UNCHANGED <<files, outputFolderExists, inputVars, selected, images, manifest, fpos,
                   clobbered, launchManifest>>

\* the with block of line 202 ends: stdout is closed, the child is waited for;
\* the locals of parse_ffmpeg_progress are gone
PopenExit(r) ==
    /\ pc[r] = "popen_exit"
    /\ \E rc \in {0, 1}, wrote \in BOOLEAN : EncoderEnds(r, rc, wrote)
    /\ n' = [n EXCEPT ![r] = 0]
    /\ lastLine' = [lastLine EXCEPT ![r] = NoLine]
    /\ linesRead' = [linesRead EXCEPT ![r] = 0]
    /\ pc' = [pc EXCEPT ![r] = "getsize"]
    /\ trace' = Log(r, "exited")
    /\ UNCHANGED <<files, outputFolderExists, inputVars, selected, images, manifest, fpos,
                   clobbered, launchManifest, propagated>>

\* lines 206-214: os.path.getsize(output_path), then the success summary
ReportSuccess(r) ==
    /\ pc[r] = "getsize"
    /\ IF outputExists
       THEN /\ trace' = Log(r, "success")
            /\ pc' = [pc EXCEPT ![r] = "metadata"]
            /\ UNCHANGED propagated
       ELSE ExceptClause(r, "OSError")
    /\ UNCHANGED <<fsVars, inputVars, progressVars, procVars, selected, images, manifest,
                   fpos, clobbered, launchManifest>>

\* lines 217-236: the sidecar, if enabled; the run is complete
SaveMetadata(r) ==
    /\ pc[r] = "metadata"
    /\ trace' = IF SaveEnabled(config) THEN Log(r, "sidecar") ELSE trace
    /\ pc' = [pc EXCEPT ![r] = "completed"]
    /\ UNCHANGED <<fsVars, inputVars, progressVars, procVars, selected, images, manifest,
                   fpos, clobbered, launchManifest, propagated>>

RaisingSteps ==
    {"start", "open_manifest", "write_manifest", "mkdir", "launch", "parse", "getsize",
     "metadata"}

\* the step the run stands at raises e (an I/O error, a bad value, a missing
\* binary); with blocks are left first
Raise(r) ==
    /\ pc[r] \in RaisingSteps
    /\ \E e \in ExcKinds : ExceptClause(r, e)
    /\ IF pc[r] = "parse"
       THEN \E rc \in {0, 1}, wrote \in BOOLEAN : EncoderEnds(r, rc, wrote)
       ELSE UNCHANGED <<procVars, outputExists>>
    /\ fpos' = [fpos EXCEPT ![r] = 0]
    /\ UNCHANGED <<files, outputFolderExists, inputVars, progressVars, selected, images,
                   manifest, clobbered, launchManifest>>

Next ==
    \E r \in RunIds :
        \/ Select(r)
        \/ OpenManifest(r)
        \/ WriteLine(r)
        \/ CloseManifest(r)
        \/ MakeOutputFolder(r)
        \/ Launch(r)
        \/ ReadLine(r)
        \/ PopenExit(r)
        \/ ReportSuccess(r)
        \/ SaveMetadata(r)
        \/ Raise(r)

Spec == Init /\ [][Next]_vars

\* image selection alone, over every placement of the files around the window
InitSelect ==
    /\ config \in Configs
    /\ InitRuns({1})
    /\ \E a \in [Names -> WindowPlacements(args[1].date, config)] : files = FilesOf(a)
    /\ manifest = NoFile
    /\ outputFolderExists = FALSE
    /\ outputExists = FALSE

NextSelect == \E r \in RunIds : Select(r)

SpecSelect == InitSelect /\ [][NextSelect]_vars

\* two runs in the same working directory, up to the launch of their encoders
InitConc ==
    /\ config \in Configs
    /\ config.save_to_file = FALSE
    /\ InitRuns(RunIds)
    /\ \E a \in [Names -> EdgePlacements(args[1].date, config)] : files = FilesOf(a)
    /\ manifest \in {NoFile, [exists |-> TRUE, lines |-> StaleManifest]}
    /\ outputFolderExists = FALSE
    /\ outputExists = FALSE

NextConc ==
    \E r \in RunIds :
        \/ Select(r)
        \/ OpenManifest(r)
        \/ WriteLine(r)
        \/ CloseManifest(r)
        \/ MakeOutputFolder(r)
        \/ Launch(r)

SpecConc == InitConc /\ [][NextConc]_vars

\* ------------------------------------------------------------------ claims

Launched(r) == Has(trace[r], "launch")
Untouched(m) == m \in {NoFile, [exists |-> TRUE, lines |-> StaleManifest]}
IsPrefix(s, t) == Len(s) <= Len(t) /\ SubSeq(t, 1, Len(s)) = s
Last(s) == s[Len(s)]
Front(s) == SubSeq(s, 1, Len(s) - 1)

\* C1: when selection yields no image the run is aborted with the error-level
\* "no images" report as its only act: no manifest is opened, no encoder is
\* launched, no success is reported and no sidecar is written (the other way
\* out of an empty selection is that selection itself raised).
C1_EmptySelectionAborts ==
    \A r \in runs :
        (pc[r] # "start" /\ SelectImages(files, args[r].date, config) = <<>>) =>
            /\ \/ pc[r] = "aborted" /\ trace[r] = <<"no_images">>
               \/ pc[r] = "failed" /\ trace[r] = <<"error">>
            /\ proc[r] = "none"
            /\ Untouched(manifest)

\* files exist, but the morning window leaves none of them
C1_Witness ==
    /\ pc[1] = "aborted"
    /\ config.morning_to_morning
    /\ files # {}
    /\ trace[1] = <<"no_images">>

\* C2: an encoder that was launched on a non-empty image list and exits with
\* a non-zero status makes the run fail: no success summary, no sidecar,
\* never Completed.
C2_NonZeroExitFails ==
    \A r \in runs :
        (returncode[r] # 0 /\ images[r] # <<>>) =>
            /\ ~Has(trace[r], "success")
            /\ ~Has(trace[r], "sidecar")
            /\ pc[r] \notin {"metadata", "completed"}

\* C3: whatever a step raises is caught by create_timelapse and logged as an
\* error, nothing leaves the function, and a failed run takes no further step.
C3_ExceptionsCaught ==
    [][\A r \in RunIds :
        /\ (pc[r] # pc'[r] /\ pc'[r] \in {"failed", "crashed"}) =>
              /\ pc'[r] = "failed"
              /\ trace'[r] = Append(trace[r], "error")
              /\ ~propagated'[r]
        /\ pc[r] = "failed" => UNCHANGED vars]_vars

\* the encoder was running when a step raised; the run failed and the child was reaped
C3_Witness ==
    /\ pc[1] = "failed"
    /\ Launched(1)
    /\ proc[1] = "exited"
    /\ Last(trace[1]) = "error"
    /\ ~propagated[1]

\* C4: while the progress stream of an encoder launched on a non-empty image
\* list is read, the indicator never goes down, and after a frame=<k> line it
\* is the larger of its old value and k.
C4_ProgressMonotonic ==
    [][\A r \in RunIds :
        (pc[r] = "parse" /\ pc'[r] = "parse" /\ images[r] # <<>>) =>
            /\ n'[r] >= n[r]
            /\ (linesRead'[r] # linesRead[r] /\ lastLine'[r].kind = "frame") =>
                  n'[r] = Max(n[r], lastLine'[r].val)]_vars

\* C5: monitoring of an encoder launched on a non-empty image list ends only
\* when the stream closes: the read that ended the loop returned end of file,
\* not a blank line.
C5_EndsOnlyAtStreamClose ==
    \A r \in runs :
        (pc[r] = "popen_exit" /\ images[r] # <<>>) =>
            lastLine[r] = EofLine /\ proc[r] = "eof"

\* C6: in morning-to-morning mode the selection is exactly the files of the
\* date's folder modified at or after the window start, by name, followed by
\* the files of the next day's folder modified at or before the window end,
\* by name.
C6_MorningWindowSelection ==
    \A r \in runs :
        (pc[r] # "start" /\ config.morning_to_morning) =>
            LET d == args[r].date
                start == d * DayLen + config.morning_time
                end == (d + 1) * DayLen + config.morning_time
                wanted == {f \in files : \/ f.folder = d /\ f.mtime >= start
                                         \/ f.folder = d + 1 /\ f.mtime <= end}
                sel == selected[r]
            IN  /\ {sel[i] : i \in 1..Len(sel)} = {PathOf(f) : f \in wanted}
                /\ Len(sel) = Cardinality(wanted)
                /\ \A i, j \in 1..Len(sel) :
                      i < j => \/ sel[i].folder = d /\ sel[j].folder = d + 1
                               \/ sel[i].folder = sel[j].folder /\ sel[i].name < sel[j].name

\* a file of the date exactly at the window start and a file of the next day
\* exactly at the window end, the latter with the smaller name, are both
\* selected, today's first
C6_Witness ==
    /\ pc[1] # "start"
    /\ config.morning_to_morning
    /\ Len(selected[1]) = 2
    /\ \E f, g \in files :
          /\ f.folder = args[1].date
          /\ f.mtime = start_time_morning(args[1].date, config)
          /\ g.folder = args[1].date + 1
          /\ g.mtime = end_time_morning(args[1].date, config)
          /\ g.name < f.name
          /\ selected[1] = <<PathOf(f), PathOf(g)>>

\* C7: the manifest the encoder is launched on, and the images it is told to
\* expect, are the first k selected images for a test limit 0 < k < length,
\* and all selected images when no test limit is given.
C7_TestLimitIsPrefix ==
    \A r \in runs :
        Launched(r) =>
            LET t == args[r].test_amount
                sel == selected[r]
            IN  /\ t = None =>
                      launchManifest[r] = ManifestOf(sel) /\ images[r] = sel
                /\ (t # None /\ 0 < t[1] /\ t[1] < Len(sel)) =>
                      /\ launchManifest[r] = ManifestOf(SubSeq(sel, 1, t[1]))
                      /\ images[r] = SubSeq(sel, 1, t[1])

\* two images selected, a test limit of one, the encoder launched on the first
C7_Witness ==
    /\ Launched(1)
    /\ args[1].test_amount = <<1>>
    /\ Len(selected[1]) = 2
    /\ launchManifest[1] = <<ManifestLine(selected[1][1])>>

\* C8: the encoder is launched only on a manifest with at least one image.
C8_LaunchNeedsImages ==
    \A r \in runs : Launched(r) => Len(launchManifest[r]) >= 1 /\ Len(images[r]) >= 1

\* what a run does, in order, when nothing stops it
Pipeline == <<"manifest_open", "manifest_closed", "launch", "exited", "success", "sidecar">>

\* C9: a run goes through manifest, encoder, report and sidecar in that
\* order, each at most once, and may stop after any of them with an error:
\* the encoder is launched once the manifest is closed and complete, the
\* success summary follows the end of the child, the sidecar follows the
\* summary, and a completed run has written the sidecar exactly if metadata
\* persistence is on.
C9_RunOrder ==
    \A r \in runs :
        LET tr == trace[r]
            body == IF tr # <<>> /\ Last(tr) \in {"error", "no_images"} THEN Front(tr) ELSE tr
        IN  /\ IsPrefix(body, Pipeline)
            /\ (tr # <<>> /\ Last(tr) = "no_images") => tr = <<"no_images">>
            /\ Launched(r) => /\ Len(launchManifest[r]) = Len(images[r])
                              /\ fpos[r] = 0
            /\ Has(tr, "success") => proc[r] = "exited"
            /\ Has(tr, "sidecar") => config.save_to_file /\ pc[r] = "completed"
            /\ pc[r] = "completed" =>
                  /\ Has(tr, "success")
                  /\ Has(tr, "sidecar") <=> config.save_to_file
            /\ pc[r] = "completed" <=> (Has(tr, "success") /\ pc[r] # "metadata" /\ Last(tr) # "error")

\* a run that ended Completed with its sidecar written last
C9_Witness ==
    /\ pc[1] = "completed"
    /\ config.save_to_file
    /\ trace[1] = Pipeline

\* C10: a run whose manifest no other run touched between its own open and
\* its launch starts its encoder on exactly its own image list.
C10_UndisturbedManifestIsOwn ==
    \A r \in runs :
        (Launched(r) /\ ~clobbered[r]) => launchManifest[r] = ManifestOf(images[r])

\* both runs in flight: one launches its encoder on the list the other wrote
C10_Witness ==
    \E r \in runs :
        \E q \in runs \ {r} :
            /\ Launched(r)
            /\ clobbered[r]
            /\ images[r] # images[q]
            /\ launchManifest[r] # ManifestOf(images[r])
            /\ launchManifest[r] = ManifestOf(images[q])

====
